---- MODULE Spec2Model ----
(***************************************************************************)
(* Model of the DrissionPage JSON-RPC bridge                               *)
(* (src/browser/drission/drission_bridge.py) and of the stealth helpers it *)
(* calls (src/browser/drission/stealth_helpers.py).                        *)
(*                                                                         *)
(* One step of the model is one iteration of main()'s "for line in         *)
(* sys.stdin" loop: the line is read, parsed, dispatched to its handler    *)
(* and answered before the next line is read (the code is synchronous and  *)
(* single-threaded).  The browser driver is the environment: every driver  *)
(* call may succeed or raise, chosen nondeterministically.                 *)
(*                                                                         *)
(* The pure stealth helpers (bezier_curve_points, random_scroll_jitter,     *)
(* get_random_viewport_point) are also examined on their own, under the    *)
(* specification Helpers: one call per behaviour, for every argument and   *)
(* every value of its random draws within the bounds.                      *)
(*                                                                         *)
(* Python dicts (requests, params, the stealth configuration, responses)   *)
(* are functions whose DOMAIN is the set of keys present, so that          *)
(* dict.get(key, default) is modelled as the code computes it.             *)
(***************************************************************************)
EXTENDS Integers, Sequences, FiniteSets, TLC

VARIABLES
    pc,          \* position of main(): "start", "loop" (reading stdin),
                 \* "done" (stdin exhausted), "crashed" (uncaught exception)
    page,        \* global _page: None or the handle of a browser session
    config,      \* global _config: the stealth dict of the latest init
    live,        \* handles launched (ChromiumPage(co)) and not yet quit
    nlaunch,     \* number of browser sessions launched so far
    nread,       \* number of stdin lines consumed so far
    line,        \* the stdin line consumed by the latest loop iteration
    prevClose,   \* history: the non-blank line before `line` was a close request
    out,         \* stdout, line by line: the id of each line written
    resp,        \* the latest stdout line in full
    calls,       \* driver calls attempted while handling `line`, in order
    delays,      \* sleeps performed while handling `line`, in order
    raised,      \* str(e) of the exception handling `line` ended with, or <<>>
    sinceInit,   \* history: an init succeeded and no close ran since
    pre,         \* history: _page and _config when `line` was read
    inp,         \* history: the id carried by each non-blank line read so far
                 \* (0 for a line that carries none)
    args,        \* a stealth helper called on its own: its arguments and the
                 \* values its random draws take
    ret          \* what that call returned, or the driver calls it made

vars == <<pc, page, config, live, nlaunch, nread, line, prevClose,
          out, resp, calls, delays, raised, sinceInit, pre, inp, args, ret>>

-----------------------------------------------------------------------------
(* Bounds of the model                                                     *)

MaxLines == 3        \* stdin lines read before end-of-input
MaxText == 2         \* longest text a type_text request carries
MaxPoints == 1       \* largest num_points drawn by bezier_mouse_move
MaxCurve == 3        \* largest num_points given to bezier_curve_points
MaxDelta == 3        \* largest max_delta given to random_scroll_jitter
MaxSide == 12        \* largest width and height of a viewport

-----------------------------------------------------------------------------
(* Python values                                                           *)

None == 0                        \* _page = None
EmptyDict == [k \in {} |-> 0]    \* {}
NoData == <<>>                   \* the default None of a dict-valued argument
NoCall == <<>>                   \* no helper call is being examined

Get(d, key, default) == IF key \in DOMAIN d THEN d[key] ELSE default

\* str(e) of an exception raised inside the driver library
DriverError == <<"driver error">>
\* traceback.format_exc()
Traceback == [traceback |-> "tb"]

-----------------------------------------------------------------------------
(* Responses                                                               *)

\* The line _send_response writes: {"id": msg_id} plus "error" when an error
\* is given, "result" otherwise.
_send_response(msg_id, result, error) ==
    IF error # NoData
    THEN ("id" :> msg_id) @@ ("error" :> error)
    ELSE ("id" :> msg_id) @@ ("result" :> result)

_send_error(msg_id, code, message, data) ==
    LET err == IF data # NoData
               THEN [code |-> code, message |-> message, data |-> data]
               ELSE [code |-> code, message |-> message]
    IN _send_response(msg_id, NoData, err)

\* json.dumps({"ready": True})
ReadyLine == [ready |-> TRUE]

\* What `out` keeps of a stdout line: its id, or the whole readiness line.
Written(l) == IF "id" \in DOMAIN l THEN [id |-> l["id"]] ELSE l

-----------------------------------------------------------------------------
(* Handlers return or raise; either way they leave the globals in some     *)
(* state and have made some driver calls and sleeps.                       *)

Return(result, c, d) ==
    [ret |-> "ok", result |-> result, message |-> <<>>,
     page |-> page, config |-> config, live |-> live, nlaunch |-> nlaunch,
     calls |-> c, delays |-> d]

Raise(message, c, d) ==
    [ret |-> "exc", result |-> EmptyDict, message |-> message,
     page |-> page, config |-> config, live |-> live, nlaunch |-> nlaunch,
     calls |-> c, delays |-> d]

\* One driver call: the function called, its string and integer arguments
\* and how it ended ("ok", "raise", or the value returned where it matters).
Call(fn, arg, n, r) == [fn |-> fn, arg |-> arg, n |-> n, r |-> r]

\* Values read from the browser
PageUrl == "page-url"
PageTitle == "page-title"

-----------------------------------------------------------------------------
(* stealth_helpers.py                                                      *)

\* A sleep is recorded with the range (in ms) its duration is drawn from by
\* random.uniform(lo, hi); the duration drawn is not part of the state.
\* random_delay(min_ms, max_ms): time.sleep(random.uniform(min_ms, max_ms) / 1000)
random_delay(min_ms, max_ms) ==
    [fn |-> "random_delay", lo |-> min_ms, hi |-> max_ms]

\* time.sleep(random.uniform(lo, hi)) inside a helper loop
Sleep(lo, hi) == [fn |-> "time.sleep", lo |-> lo, hi |-> hi]

\* int(x) for the rational x = num / den (den > 0): truncation towards zero
Trunc(num, den) == IF num >= 0 THEN num \div den ELSE -((-num) \div den)

\* round(x) for the rational x = num / den (den > 0): the nearest integer,
\* a tie going to the even one
PyRound(num, den) ==
    LET f == num \div den
        twice == 2 * (num % den)
    IN  IF twice < den THEN f
        ELSE IF twice > den THEN f + 1
        ELSE IF f % 2 = 0 THEN f ELSE f + 1

\* the integer part of math.sqrt(n)
ISqrt(n) == CHOOSE r \in 0..n : r * r <= n /\ (r + 1) * (r + 1) > n

\* _bezier_point(t, p0, p1, p2, p3) at t = i / n, times n^3
_bezier_point(i, n, p0, p1, p2, p3) ==
    (n - i) * (n - i) * (n - i) * p0
    + 3 * (n - i) * (n - i) * i * p1
    + 3 * (n - i) * i * i * p2
    + i * i * i * p3

\* Coordinates are given in halves (3 is 1.5).  An integer inside
\* [-spread, spread] for spread = max(dist * 0.3, 30): the largest one
SpreadOf(start, end) ==
    LET dx == end[1] - start[1]
        dy == end[2] - start[2]
        dist2 == ISqrt(dx * dx + dy * dy)       \* 2 * dist, rounded down
    IN  IF (3 * dist2) \div 20 > 30 THEN (3 * dist2) \div 20 ELSE 30

\* What the four random.uniform draws of one axis can be: the factors u1 in
\* [0.2, 0.4] and u2 in [0.6, 0.8] in tenths, the offsets s1 and s2 in
\* [-spread, spread]
AxisDraws(spread) ==
    [u1 : {2, 4}, u2 : {6, 8}, s1 : {-spread, spread}, s2 : {-spread, spread}]

\* One axis of bezier_curve_points: the coordinate of point i of num_points,
\* from a0 to a3 (in halves) with the draws d; all terms are in twentieths
BezierAxis(i, num_points, a0, a3, d) ==
    LET p0 == 10 * a0
        p1 == 10 * a0 + (a3 - a0) * d.u1 + 20 * d.s1
        p2 == 10 * a0 + (a3 - a0) * d.u2 + 20 * d.s2
        p3 == 10 * a3
    IN  PyRound(_bezier_point(i, num_points, p0, p1, p2, p3),
                20 * num_points * num_points * num_points)

\* Mutation of bezier_curve_points: the loop is range(num_points)
bezier_curve_points_short(start, end, num_points, dx, dy) ==
    [k \in 1..num_points |->
        <<BezierAxis(k - 1, num_points, start[1], end[1], dx),
          BezierAxis(k - 1, num_points, start[2], end[2], dy)>>]

\* bezier_curve_points(start, end, num_points) with the draws dx and dy for
\* the control points: the points for i in range(num_points + 1)
bezier_curve_points(start, end, num_points, dx, dy) ==
    [k \in 1..(num_points + 1) |->
        <<BezierAxis(k - 1, num_points, start[1], end[1], dx),
          BezierAxis(k - 1, num_points, start[2], end[2], dy)>>]

\* The loop of bezier_mouse_move over k remaining points: each point is
\* moved to with actions.move, on failure with actions.move_to, and the
\* loop breaks when both fail; a sleep follows each point reached.
RECURSIVE MoveLoop(_)
MoveLoop(k) ==
    IF k = 0 THEN {[calls |-> <<>>, delays |-> <<>>]}
    ELSE LET broke == [calls |-> <<Call("actions.move", "", 0, "raise"),
                                   Call("actions.move_to", "", 0, "raise")>>,
                       delays |-> <<>>]
             moved == {<<Call("actions.move", "", 0, "ok")>>,
                       <<Call("actions.move", "", 0, "raise"),
                         Call("actions.move_to", "", 0, "ok")>>}
         IN {broke} \cup
            {[calls |-> m \o r.calls, delays |-> <<Sleep(5, 25)>> \o r.delays] :
                m \in moved, r \in MoveLoop(k - 1)}

\* num_points = random.randint(15, 30), scaled down to 1..MaxPoints; the
\* path has num_points + 1 points
bezier_mouse_move ==
    UNION {MoveLoop(num_points + 1) : num_points \in 1..MaxPoints}

\* random_scroll_jitter(page, max_delta): one scroll by a non-zero delta
\* (failure swallowed), then random_delay(100, 300)
JitterDraws(max_delta) == {-max_delta, 0, max_delta}

\* Mutation of JitterScroll: a drawn delta of 0 is not replaced
JitterScroll_zero(drawn, pick, r) ==
    [calls |-> <<IF drawn > 0 THEN Call("scroll.down", "", drawn, r)
                 ELSE Call("scroll.up", "", -drawn, r)>>,
     delays |-> <<random_delay(100, 300)>>]

\* The body of random_scroll_jitter when random.randint gives `drawn`,
\* random.choice([-30, 30]) would give `pick` and the scroll call ends as r
JitterScroll(drawn, pick, r) ==
    LET delta == IF drawn = 0 THEN pick ELSE drawn
    IN  [calls |-> <<IF delta > 0 THEN Call("scroll.down", "", delta, r)
                     ELSE Call("scroll.up", "", -delta, r)>>,
         delays |-> <<random_delay(100, 300)>>]

random_scroll_jitter(max_delta) ==
    {JitterScroll(d, pick, r) :
        d \in JitterDraws(max_delta), pick \in {-30, 30}, r \in {"ok", "raise"}}

\* Mutation of get_random_viewport_point: the point is drawn from the whole
\* viewport
get_random_viewport_point_whole(width, height) ==
    {<<x, y>> : x \in 0..width, y \in 0..height}

\* get_random_viewport_point(width, height): the points random.randint can
\* give between int(width * 0.1) and int(width * 0.9), and likewise for y
get_random_viewport_point(width, height) ==
    {<<x, y>> : x \in Trunc(width, 10)..Trunc(9 * width, 10),
                y \in Trunc(height, 10)..Trunc(9 * height, 10)}

\* human_type(element, text) from character i on: element.input(char), on
\* failure element.type(char), break when both fail; a sleep follows each
\* character typed, either the thinking pause (300..800 ms) or the
\* per-character delay (50..200 ms): the entry spans both ranges.
\* Mutation of TypeLoop: when element.input and element.type both fail the
\* loop goes on with the next character instead of breaking
RECURSIVE TypeLoop_continue(_, _)
TypeLoop_continue(text, i) ==
    IF i > Len(text) THEN {[calls |-> <<>>, delays |-> <<>>]}
    ELSE LET failed == <<Call("element.input", text[i], 0, "raise"),
                         Call("element.type", text[i], 0, "raise")>>
             typed == {<<Call("element.input", text[i], 0, "ok")>>,
                       <<Call("element.input", text[i], 0, "raise"),
                         Call("element.type", text[i], 0, "ok")>>}
         IN {[calls |-> failed \o r.calls, delays |-> r.delays] :
                r \in TypeLoop_continue(text, i + 1)}
            \cup
            {[calls |-> t \o r.calls, delays |-> <<Sleep(50, 800)>> \o r.delays] :
                t \in typed, r \in TypeLoop_continue(text, i + 1)}

RECURSIVE TypeLoop(_, _)
TypeLoop(text, i) ==
    IF i > Len(text) THEN {[calls |-> <<>>, delays |-> <<>>]}
    ELSE LET broke == [calls |-> <<Call("element.input", text[i], 0, "raise"),
                                   Call("element.type", text[i], 0, "raise")>>,
                       delays |-> <<>>]
             typed == {<<Call("element.input", text[i], 0, "ok")>>,
                       <<Call("element.input", text[i], 0, "raise"),
                         Call("element.type", text[i], 0, "ok")>>}
         IN {broke} \cup
            {[calls |-> t \o r.calls, delays |-> <<Sleep(50, 800)>> \o r.delays] :
                t \in typed, r \in TypeLoop(text, i + 1)}

human_type(text) == TypeLoop(text, 1)

-----------------------------------------------------------------------------
(* drission_bridge.py: delay helpers                                       *)

\* Mutation of _get_delay_range: the configuration is not consulted
_get_delay_range_fixed == <<200, 800>>

_get_delay_range ==
    <<Get(config, "minDelayMs", 200), Get(config, "maxDelayMs", 800)>>

_apply_human_delay == random_delay(_get_delay_range[1], _get_delay_range[2])

\* _apply_human_delay() reached after n driver calls of the handler: the
\* sleep is recorded with that position
HumanDelay(n) == _apply_human_delay @@ [after |-> n]

-----------------------------------------------------------------------------
(* drission_bridge.py: action handlers.  Each is the set of ways the       *)
(* handler can end for the given params in the current state.              *)

ImportErrorMsg == <<"DrissionPage is not installed. Run: pip install DrissionPage">>

handle_init(params) ==
    LET cfg == Get(params, "stealth", EmptyDict)
        width == Get(cfg, "windowWidth", 1920)
        height == Get(cfg, "windowHeight", 1080)
        h == nlaunch + 1
        launch(r) == <<Call("ChromiumPage", "", 0, r)>>
    IN  \* the import of DrissionPage fails: nothing is assigned
        {Raise(ImportErrorMsg, <<>>, <<>>)}
        \cup
        \* _config is assigned, then building the options or the launch raises
        {[Raise(DriverError, c, <<>>) EXCEPT !.config = cfg] :
            c \in {<<>>, launch("raise")}}
        \cup
        {[Return([status |-> "initialized",
                  windowSize |-> [width |-> width, height |-> height]],
                 launch("ok"), <<>>)
            EXCEPT !.config = cfg, !.page = h,
                   !.live = live \cup {h}, !.nlaunch = h]}

\* Mutation of handle_navigate: url is used without being validated
handle_navigate_unchecked(params) ==
    LET url == Get(params, "url", "")
        get(r) == Call("page.get", url, 0, r)
        rd(fn, r) == Call(fn, "", 0, r)
    IN  {Raise(DriverError, <<get("raise")>>, <<>>),
         Raise(DriverError, <<get("ok"), rd("page.url", "raise")>>,
               <<HumanDelay(1)>>),
         Raise(DriverError, <<get("ok"), rd("page.url", "ok"),
                              rd("page.title", "raise")>>,
               <<HumanDelay(1)>>),
         Return([url |-> PageUrl, title |-> PageTitle],
                <<get("ok"), rd("page.url", "ok"), rd("page.title", "ok")>>,
                <<HumanDelay(1)>>)}

handle_navigate(params) ==
    LET url == Get(params, "url", "")
        get(r) == Call("page.get", url, 0, r)
        rd(fn, r) == Call(fn, "", 0, r)
    IN  IF url = "" THEN {Raise(<<"url is required">>, <<>>, <<>>)}
        ELSE {Raise(DriverError, <<get("raise")>>, <<>>)}
             \cup
             {Raise(DriverError, <<get("ok"), rd("page.url", "raise")>>,
                    <<HumanDelay(1)>>),
              Raise(DriverError, <<get("ok"), rd("page.url", "ok"),
                                   rd("page.title", "raise")>>,
                    <<HumanDelay(1)>>),
              Return([url |-> PageUrl, title |-> PageTitle],
                     <<get("ok"), rd("page.url", "ok"), rd("page.title", "ok")>>,
                     <<HumanDelay(1)>>)}

\* Mutation of ElementNotFound: the message does not say which selector
ElementNotFound_bare(selector) == <<"Element not found">>

\* f"Element not found: {selector}"
ElementNotFound(selector) == <<"Element not found: ", selector>>

\* The pre-click pointer animation of handle_click_element (its try block):
\* element.rect raises or is empty, or the pointer is moved along a path
PreClickAnimation ==
    {[calls |-> <<Call("element.rect", "", 0, r)>>, delays |-> <<>>] :
        r \in {"raise", "none"}}
    \cup
    {[calls |-> <<Call("element.rect", "", 0, "ok")>> \o m.calls,
      delays |-> m.delays] : m \in bezier_mouse_move}

handle_click_element(params) ==
    LET selector == Get(params, "selector", "")
        ele(r) == Call("page.ele", selector, 0, r)
        anims == IF Get(config, "naturalMouseMovement", TRUE)
                 THEN PreClickAnimation
                 ELSE {[calls |-> <<>>, delays |-> <<>>]}
        click(r) == Call("element.click", "", 0, r)
        text(r) == Call("element.text", "", 0, r)
    IN  IF selector = "" THEN {Raise(<<"selector is required">>, <<>>, <<>>)}
        ELSE {Raise(DriverError, <<ele("raise")>>, <<>>),
              Raise(ElementNotFound(selector), <<ele("none")>>, <<>>)}
             \cup
             UNION {{Raise(DriverError,
                           <<ele("ok")>> \o a.calls \o <<click("raise")>>,
                           a.delays),
                     Raise(DriverError,
                           <<ele("ok")>> \o a.calls \o <<click("ok"), text("raise")>>,
                           a.delays \o <<HumanDelay(Len(a.calls) + 2)>>),
                     Return([success |-> TRUE, elementDescription |-> "text"],
                            <<ele("ok")>> \o a.calls \o <<click("ok"), text("ok")>>,
                            a.delays \o <<HumanDelay(Len(a.calls) + 2)>>)} :
                       a \in anims}

\* Mutation of handle_click_xy: the failure of a pointer move is not
\* swallowed by bezier_mouse_move, so it leaves the handler before the click
handle_click_xy_unguarded(params) ==
    LET x == Get(params, "x", 0)
        y == Get(params, "y", 0)
        anims == IF Get(config, "naturalMouseMovement", TRUE)
                 THEN bezier_mouse_move
                 ELSE {[calls |-> <<>>, delays |-> <<>>]}
        click(r) == Call("actions.click", "", x, r)
        broke(a) == \E k \in 1..Len(a.calls) : a.calls[k].r = "raise"
    IN  UNION {IF broke(a)
               THEN {Raise(DriverError, a.calls, a.delays)}
               ELSE {Raise(DriverError, a.calls \o <<click("raise")>>, a.delays),
                     Return([success |-> TRUE, x |-> x, y |-> y],
                            a.calls \o <<click("ok")>>,
                            a.delays \o <<HumanDelay(Len(a.calls) + 1)>>)} :
                  a \in anims}

handle_click_xy(params) ==
    LET x == Get(params, "x", 0)
        y == Get(params, "y", 0)
        anims == IF Get(config, "naturalMouseMovement", TRUE)
                 THEN bezier_mouse_move
                 ELSE {[calls |-> <<>>, delays |-> <<>>]}
        click(r) == Call("actions.click", "", x, r)
    IN  UNION {{Raise(DriverError, a.calls \o <<click("raise")>>, a.delays),
                Return([success |-> TRUE, x |-> x, y |-> y],
                       a.calls \o <<click("ok")>>,
                       a.delays \o <<HumanDelay(Len(a.calls) + 1)>>)} :
                  a \in anims}

handle_type_text(params) ==
    LET selector == Get(params, "selector", "")
        text == Get(params, "text", <<>>)
        clear == Get(params, "clear", TRUE)
        use_human_typing == Get(params, "humanTyping", TRUE)
        ele(r) == Call("page.ele", selector, 0, r)
        \* element.clear() inside try/except: a failure is swallowed
        clears == IF clear
                  THEN {<<Call("element.clear", "", 0, r)>> : r \in {"ok", "raise"}}
                  ELSE {<<>>}
        bulk(r) == Call("element.input", "", Len(text), r)
        after(c, dl) ==
            {Return([success |-> TRUE, fieldDescription |-> selector],
                    c, dl \o <<HumanDelay(Len(c))>>)}
    IN  IF selector = "" THEN {Raise(<<"selector is required">>, <<>>, <<>>)}
        ELSE {Raise(DriverError, <<ele("raise")>>, <<>>),
              Raise(ElementNotFound(selector), <<ele("none")>>, <<>>)}
             \cup
             UNION {IF use_human_typing
                    THEN UNION {after(<<ele("ok")>> \o c \o t.calls, t.delays) :
                                   t \in human_type(text)}
                    ELSE {Raise(DriverError, <<ele("ok")>> \o c \o <<bulk("raise")>>,
                                <<>>)}
                         \cup after(<<ele("ok")>> \o c \o <<bulk("ok")>>, <<>>) :
                       c \in clears}

handle_screenshot(params) ==
    LET fmt == Get(params, "format", "png")
        shot(r) == Call("page.get_screenshot", fmt, 0, r)
        \* the fallback call after a TypeError: get_screenshot(as_bytes=True)
        again(r) == Call("page.get_screenshot", "", 0, r)
        res == [base64 |-> "b64", format |-> fmt,
                width |-> Get(config, "windowWidth", 1920),
                height |-> Get(config, "windowHeight", 1080)]
    IN  {Return(res, <<shot("ok")>>, <<>>),
         Raise(DriverError, <<shot("raise")>>, <<>>),
         Return(res, <<shot("TypeError"), again("ok")>>, <<>>),
         Raise(DriverError, <<shot("TypeError"), again("raise")>>, <<>>)}

handle_get_dom_map(params) ==
    LET js(r) == Call("page.run_js", "dom-map-script", 0, r)
        rd(fn, r) == Call(fn, "", 0, r)
    IN  {Raise(DriverError, <<js("raise")>>, <<>>),
         Raise(DriverError, <<js("ok"), rd("page.url", "raise")>>, <<>>),
         Raise(DriverError, <<js("ok"), rd("page.url", "ok"),
                              rd("page.title", "raise")>>, <<>>),
         Return([elements |-> "elements", url |-> PageUrl, title |-> PageTitle],
                <<js("ok"), rd("page.url", "ok"), rd("page.title", "ok")>>, <<>>)}

handle_scroll(params) ==
    LET direction == Get(params, "direction", "down")
        amount == Get(params, "amount", 300)
        primary(r) ==
            CASE direction = "down" -> <<Call("scroll.down", "", amount, r)>>
              [] direction = "up" -> <<Call("scroll.up", "", amount, r)>>
              [] direction = "top" -> <<Call("scroll.to_top", "", 0, r)>>
              [] direction = "bottom" -> <<Call("scroll.to_bottom", "", 0, r)>>
              [] OTHER -> <<>>
        jitters == IF Get(config, "naturalMouseMovement", TRUE)
                   THEN random_scroll_jitter(30)
                   ELSE {[calls |-> <<>>, delays |-> <<>>]}
    IN  (IF primary("raise") # <<>>
         THEN {Raise(DriverError, primary("raise"), <<>>)} ELSE {})
        \cup
        {Return([success |-> TRUE, direction |-> direction],
                primary("ok") \o j.calls,
                j.delays \o <<HumanDelay(Len(primary("ok") \o j.calls))>>) :
            j \in jitters}

handle_wait(params) ==
    LET ms == Get(params, "ms", 1000)
        selector == Get(params, "selector", "")
        shown(r) == Call("wait.ele_displayed", selector, ms, r)
    IN  IF selector # ""
        THEN \* whatever ele_displayed returns, only an exception is a timeout
             {Return([success |-> TRUE, waited_for |-> selector],
                     <<shown(r)>>, <<>>) : r \in {"ok", "false"}}
             \cup
             {Return([success |-> FALSE, waited_for |-> selector, timedOut |-> TRUE],
                     <<shown("raise")>>, <<>>)}
        ELSE {Return([success |-> TRUE, waited_ms |-> ms], <<>>,
                     <<Sleep(ms, ms)>>)}

handle_execute_js(params) ==
    LET code == Get(params, "code", "")
        js(r) == Call("page.run_js", code, 0, r)
    IN  IF code = "" THEN {Raise(<<"code is required">>, <<>>, <<>>)}
        ELSE {Raise(DriverError, <<js("raise")>>, <<>>),
              Return([result |-> "js-value"], <<js("ok")>>, <<>>)}

\* Mutation of handle_close: "global _page" is missing, so the assignment
\* _page = None binds a local name and the global keeps the handle
handle_close_local(params) ==
    LET closed == [status |-> "closed"]
        quit(r) == <<Call("page.quit", "", 0, r)>>
    IN  IF page # None
        THEN {[Return(closed, quit("ok"), <<>>) EXCEPT !.live = live \ {page}],
              Return(closed, quit("raise"), <<>>)}
        ELSE {Return(closed, <<>>, <<>>)}

\* Mutation of handle_close: the exception of _page.quit() is not swallowed
handle_close_propagate(params) ==
    LET closed == [status |-> "closed"]
        quit(r) == <<Call("page.quit", "", 0, r)>>
    IN  IF page # None
        THEN {[Return(closed, quit("ok"), <<>>)
                  EXCEPT !.page = None, !.live = live \ {page}],
              Raise(DriverError, quit("raise"), <<>>)}
        ELSE {Return(closed, <<>>, <<>>)}

handle_close(params) ==
    LET closed == [status |-> "closed"]
        quit(r) == <<Call("page.quit", "", 0, r)>>
    IN  IF page # None
        THEN {[Return(closed, quit("ok"), <<>>)
                  EXCEPT !.page = None, !.live = live \ {page}],
              \* _page.quit() raises: swallowed, the session is not torn down
              [Return(closed, quit("raise"), <<>>) EXCEPT !.page = None]}
        ELSE {Return(closed, <<>>, <<>>)}

handle_get_page_info(params) ==
    LET rd(fn, r) == Call(fn, "", 0, r)
    IN  IF page # None
        THEN {Raise(DriverError, <<rd("page.url", "raise")>>, <<>>),
              Raise(DriverError, <<rd("page.url", "ok"), rd("page.title", "raise")>>,
                    <<>>),
              Return([url |-> PageUrl, title |-> PageTitle, ready |-> TRUE],
                     <<rd("page.url", "ok"), rd("page.title", "ok")>>, <<>>)}
        ELSE {Return([url |-> "", title |-> "", ready |-> FALSE], <<>>, <<>>)}

-----------------------------------------------------------------------------
(* drission_bridge.py: method dispatch and main loop                       *)

METHODS ==
    {"init", "navigate", "click_element", "click_xy", "type_text",
     "screenshot", "get_dom_map", "scroll", "wait", "execute_js", "close",
     "get_page_info"}

\* handler = METHODS.get(method); handler(params)
Handler(method, params) ==
    CASE method = "init" -> handle_init(params)
      [] method = "navigate" -> handle_navigate(params)
      [] method = "click_element" -> handle_click_element(params)
      [] method = "click_xy" -> handle_click_xy(params)
      [] method = "type_text" -> handle_type_text(params)
      [] method = "screenshot" -> handle_screenshot(params)
      [] method = "get_dom_map" -> handle_get_dom_map(params)
      [] method = "scroll" -> handle_scroll(params)
      [] method = "wait" -> handle_wait(params)
      [] method = "execute_js" -> handle_execute_js(params)
      [] method = "close" -> handle_close(params)
      [] method = "get_page_info" -> handle_get_page_info(params)

\* Mutation of MethodNotFound: the lookup is made after the not-initialized
\* guard, so it only happens once a session exists
MethodNotFound_afterGuard(method) == method \notin METHODS /\ page # None

\* handler is None
MethodNotFound(method) == method \notin METHODS

\* Mutation of NotInitialized: wait is let through like close
NotInitialized_exceptWait(method) ==
    method # "init" /\ page = None /\ method \notin {"close", "wait"}

\* the guard before the handler is called
NotInitialized(method) ==
    method # "init" /\ page = None /\ method \notin {"close"}

\* Mutation of Caught: only the handlers' own ValueErrors are caught, not
\* what the driver raises
Caught_valueErrorOnly(o) == o.ret = "exc" /\ o.message # DriverError

\* except Exception: whatever a handler or the parser raises is an Exception
Caught(o) == o.ret = "exc"

\* A handler (or the parser) ended as o: the result or the caught exception
\* is answered and the loop goes on to the next line; an exception that is
\* not caught would leave main().
Finish(msg_id, o) ==
    IF o.ret = "ok"
    THEN /\ resp' = _send_response(msg_id, o.result, NoData)
         /\ out' = Append(out, Written(resp'))
         /\ pc' = "loop"
    ELSE IF Caught(o)
    THEN /\ resp' = _send_error(msg_id, -32000, o.message, Traceback)
         /\ out' = Append(out, Written(resp'))
         /\ pc' = "loop"
    ELSE /\ UNCHANGED <<resp, out>>
         /\ pc' = "crashed"

\* the two early "continue" branches: an error is sent, no handler runs
Reject(msg_id, code, message) ==
    /\ resp' = _send_error(msg_id, code, message, NoData)
    /\ out' = Append(out, Written(resp'))
    /\ pc' = "loop"
    /\ calls' = <<>>
    /\ delays' = <<>>
    /\ raised' = <<>>
    /\ UNCHANGED <<page, config, live, nlaunch, sinceInit>>

\* the body of the try block for a line that parsed to the dict req
Dispatch(req) ==
    LET msg_id == Get(req, "id", 0)
        method == Get(req, "method", "")
        params == Get(req, "params", EmptyDict)
    IN  IF MethodNotFound(method)
        THEN Reject(msg_id, -32601, <<"Method not found: ", method>>)
        ELSE IF NotInitialized(method)
        THEN Reject(msg_id, -32000,
                    <<"Browser not initialized. Call 'init' first.">>)
        ELSE \E o \in Handler(method, params) :
                /\ Finish(msg_id, o)
                /\ page' = o.page
                /\ config' = o.config
                /\ live' = o.live
                /\ nlaunch' = o.nlaunch
                /\ calls' = o.calls
                /\ delays' = o.delays
                /\ raised' = o.message
                /\ sinceInit' = IF method = "init" /\ o.ret = "ok" THEN TRUE
                                ELSE IF method = "close" THEN FALSE
                                ELSE sinceInit

-----------------------------------------------------------------------------
(* Input: the lines the parent process can send                            *)

\* stealth objects an init request can carry
Stealths ==
    {EmptyDict,
     [minDelayMs |-> 10, maxDelayMs |-> 20, windowWidth |-> 800,
      windowHeight |-> 600],
     [naturalMouseMovement |-> FALSE]}

Letters == <<"a", "b", "c", "d">>
Texts == {SubSeq(Letters, 1, n) : n \in 0..MaxText}

\* params objects sent with each method
ParamChoices(method) ==
    CASE method = "init" -> {EmptyDict} \cup {[stealth |-> st] : st \in Stealths}
      [] method = "navigate" -> {EmptyDict, [url |-> "http://a"]}
      [] method = "click_element" -> {EmptyDict, [selector |-> "#a"]}
      [] method = "click_xy" -> {EmptyDict, [x |-> 3, y |-> 4]}
      [] method = "type_text" ->
            {EmptyDict, [text |-> Letters], [selector |-> "#a"]}
            \cup {[selector |-> "#a", text |-> t] : t \in Texts}
            \cup {[selector |-> "#a", text |-> SubSeq(Letters, 1, MaxText),
                   clear |-> FALSE, humanTyping |-> FALSE]}
      [] method = "screenshot" -> {EmptyDict, [format |-> "jpeg"]}
      [] method = "scroll" ->
            {EmptyDict, [direction |-> "up", amount |-> 100],
             [direction |-> "top"], [direction |-> "bottom"],
             [direction |-> "sideways"]}
      [] method = "wait" -> {EmptyDict, [ms |-> 0], [selector |-> "#a", ms |-> 500]}
      [] method = "execute_js" -> {EmptyDict, [code |-> "1+1"]}
      [] OTHER -> {EmptyDict}

\* The request objects naming `method`: in full, with the number of the line
\* as id and one of the params objects, or with "id" or "params" left out.
Requests(method) ==
    LET id == [id |-> nread + 1]
    IN  {id @@ [method |-> method] @@ [params |-> p] : p \in ParamChoices(method)}
        \cup {id @@ [method |-> method],
              [method |-> method, params |-> EmptyDict],
              [method |-> method]}

\* Request objects whose method is not in METHODS, or is missing
UnknownRequests ==
    LET ids == {[id |-> nread + 1], EmptyDict}
    IN  {i @@ m @@ [params |-> EmptyDict] :
            i \in ids, m \in {[method |-> "frobnicate"], EmptyDict}}

LineMethod(l) == IF l.kind = "request" THEN Get(l.req, "method", "") ELSE "<none>"

-----------------------------------------------------------------------------
(* main()                                                                  *)

Booted ==
    /\ pc = "start"
    /\ page = None
    /\ config = EmptyDict
    /\ live = {}
    /\ nlaunch = 0
    /\ nread = 0
    /\ line = [kind |-> "none", req |-> EmptyDict]
    /\ prevClose = FALSE
    /\ out = <<>>
    /\ resp = EmptyDict
    /\ calls = <<>>
    /\ delays = <<>>
    /\ raised = <<>>
    /\ sinceInit = FALSE
    /\ pre = [page |-> None, config |-> EmptyDict]
    /\ inp = <<>>

Init ==
    /\ Booted
    /\ args = NoCall
    /\ ret = NoCall

\* sys.stdout.write(json.dumps({"ready": True}) + "\n")
Startup ==
    /\ pc = "start"
    /\ pc' = "loop"
    /\ resp' = ReadyLine
    /\ out' = <<Written(ReadyLine)>>
    /\ UNCHANGED <<page, config, live, nlaunch, nread, line, prevClose,
                   calls, delays, raised, sinceInit, pre, inp, args, ret>>

\* "for line in sys.stdin" yields the line l
Consume(l) ==
    /\ pc = "loop"
    /\ nread < MaxLines
    /\ nread' = nread + 1
    /\ line' = l
    /\ prevClose' = IF line.kind \in {"none", "blank"} THEN prevClose
                    ELSE LineMethod(line) = "close"
    /\ pre' = [page |-> page, config |-> config]
    /\ inp' = IF l.kind = "blank" THEN inp
              ELSE Append(inp, IF l.kind = "request" THEN Get(l.req, "id", 0) ELSE 0)
    /\ UNCHANGED <<args, ret>>

\* Mutation of BlankLine: the empty line is not skipped but handed to
\* json.loads, which raises
BlankLine_parsed ==
    /\ Consume([kind |-> "blank", req |-> EmptyDict])
    /\ Finish(0, Raise(<<"Expecting value">>, <<>>, <<>>))
    /\ calls' = <<>>
    /\ delays' = <<>>
    /\ raised' = <<"Expecting value">>
    /\ UNCHANGED <<page, config, live, nlaunch, sinceInit>>

\* line.strip() is empty: continue
BlankLine ==
    /\ Consume([kind |-> "blank", req |-> EmptyDict])
    /\ UNCHANGED <<pc, page, config, live, nlaunch, out, resp, calls, delays,
                   raised, sinceInit>>

\* Mutation of MalformedLine: msg_id is not reset for each line, so the
\* error carries the id of the response before it
MalformedLine_staleId ==
    \E k \in {"garbage", "nonobject"} :
        LET e == IF k = "garbage" THEN <<"Expecting value">>
                 ELSE <<"object has no attribute 'get'">>
        IN  /\ Consume([kind |-> k, req |-> EmptyDict])
            /\ Finish(Get(resp, "id", 0), Raise(e, <<>>, <<>>))
            /\ calls' = <<>>
            /\ delays' = <<>>
            /\ raised' = e
            /\ UNCHANGED <<page, config, live, nlaunch, sinceInit>>

\* json.loads(line) raises, or returns something that is not a dict so that
\* req.get raises: msg_id is still 0
MalformedLine ==
    \E k \in {"garbage", "nonobject"} :
        LET e == IF k = "garbage" THEN <<"Expecting value">>
                 ELSE <<"object has no attribute 'get'">>
        IN  /\ Consume([kind |-> k, req |-> EmptyDict])
            /\ Finish(0, Raise(e, <<>>, <<>>))
            /\ calls' = <<>>
            /\ delays' = <<>>
            /\ raised' = e
            /\ UNCHANGED <<page, config, live, nlaunch, sinceInit>>

Request(method) ==
    \E req \in Requests(method) :
        /\ Consume([kind |-> "request", req |-> req])
        /\ Dispatch(req)

UnknownMethod ==
    \E req \in UnknownRequests :
        /\ Consume([kind |-> "request", req |-> req])
        /\ Dispatch(req)

ReqInit == Request("init")
ReqNavigate == Request("navigate")
ReqClickElement == Request("click_element")
ReqClickXy == Request("click_xy")
ReqTypeText == Request("type_text")
ReqScreenshot == Request("screenshot")
ReqGetDomMap == Request("get_dom_map")
ReqScroll == Request("scroll")
ReqWait == Request("wait")
ReqExecuteJs == Request("execute_js")
ReqClose == Request("close")
ReqGetPageInfo == Request("get_page_info")

\* sys.stdin is exhausted: the for loop, and main(), end
EndOfInput ==
    /\ pc = "loop"
    /\ pc' = "done"
    /\ UNCHANGED <<page, config, live, nlaunch, nread, line, prevClose, out,
                   resp, calls, delays, raised, sinceInit, pre, inp, args, ret>>

Next ==
    \/ Startup
    \/ BlankLine
    \/ MalformedLine
    \/ UnknownMethod
    \/ ReqInit
    \/ ReqNavigate
    \/ ReqClickElement
    \/ ReqClickXy
    \/ ReqTypeText
    \/ ReqScreenshot
    \/ ReqGetDomMap
    \/ ReqScroll
    \/ ReqWait
    \/ ReqExecuteJs
    \/ ReqClose
    \/ ReqGetPageInfo
    \/ EndOfInput

Spec == Init /\ [][Next]_vars

-----------------------------------------------------------------------------
(* The stealth helpers called on their own, for every argument and every   *)
(* value of their random draws within the bounds                           *)

mainVars == <<pc, page, config, live, nlaunch, nread, line, prevClose,
              out, resp, calls, delays, raised, sinceInit, pre, inp>>

\* start and end points given to bezier_curve_points, in halves
BezierEnds == {<<0, 1>>, <<3, -1>>, <<400, 7>>}

BezierCalls ==
    UNION {[fn : {"bezier_curve_points"}, start : {st}, end : {en},
            num_points : 1..MaxCurve,
            dx : AxisDraws(SpreadOf(st, en)), dy : AxisDraws(SpreadOf(st, en))] :
              st \in BezierEnds, en \in BezierEnds}

\* random_scroll_jitter with every max_delta and every delta randint can draw
JitterCalls ==
    UNION {[fn : {"random_scroll_jitter"}, max_delta : {m}, drawn : (-m)..m,
            pick : {-30, 30}, r : {"ok", "raise"}] : m \in 0..MaxDelta}

\* get_random_viewport_point with every positive width and height
ViewportCalls ==
    [fn : {"get_random_viewport_point"}, width : 1..MaxSide, height : 1..MaxSide]

HelperCalls == BezierCalls \cup JitterCalls \cup ViewportCalls

HelperInit ==
    /\ Booted
    /\ args \in HelperCalls
    /\ ret = NoCall

CallBezierCurvePoints ==
    /\ args.fn = "bezier_curve_points"
    /\ ret = NoCall
    /\ ret' = bezier_curve_points(args.start, args.end, args.num_points,
                                  args.dx, args.dy)
    /\ UNCHANGED <<mainVars, args>>

CallRandomScrollJitter ==
    /\ args.fn = "random_scroll_jitter"
    /\ ret = NoCall
    /\ ret' = JitterScroll(args.drawn, args.pick, args.r)
    /\ UNCHANGED <<mainVars, args>>

CallGetRandomViewportPoint ==
    /\ args.fn = "get_random_viewport_point"
    /\ ret = NoCall
    /\ ret' \in get_random_viewport_point(args.width, args.height)
    /\ UNCHANGED <<mainVars, args>>

HelperNext ==
    \/ CallBezierCurvePoints
    \/ CallRandomScrollJitter
    \/ CallGetRandomViewportPoint

Helpers == HelperInit /\ [][HelperNext]_vars

-----------------------------------------------------------------------------
(* Properties                                                              *)

\* `line` is a request object, and what it asks for
IsRequest == line.kind = "request"
NonBlank == line.kind \in {"request", "garbage", "nonobject"}
Method == LineMethod(line)
Params == Get(line.req, "params", EmptyDict)

\* the latest stdout line is a result / an error with the given code
IsResult == IsRequest /\ DOMAIN resp = {"id", "result"}
IsError(code) ==
    /\ NonBlank
    /\ DOMAIN resp = {"id", "error"}
    /\ resp["error"].code = code

Unchanged == page = pre.page /\ config = pre.config

ReadyOnly ==
    {"navigate", "click_element", "click_xy", "type_text", "screenshot",
     "get_dom_map", "scroll", "wait", "execute_js"}

\* C1: a get_page_info request that arrives while the session is
\* Uninitialized is answered with the result {url: "", title: "",
\* ready: false}, not with an error, and makes no driver call.
C1_GetPageInfoAnyState ==
    (IsRequest /\ Method = "get_page_info" /\ pre.page = None)
        => /\ IsResult
           /\ resp["result"] = [url |-> "", title |-> "", ready |-> FALSE]
           /\ calls = <<>>

\* C2: the response to a non-blank line carries that line's id: the request's
\* own id when it has one (whatever the outcome), 0 when the id is omitted or
\* the line is no request object; an earlier id is never reused.
C2_IdEchoed ==
    NonBlank =>
        /\ resp["id"] = (IF IsRequest /\ "id" \in DOMAIN line.req
                         THEN line.req["id"] ELSE 0)
        /\ out[Len(out)] = [id |-> resp["id"]]
        /\ (~IsRequest => \A k \in 1..Len(inp) : inp[k] # 0 => inp[k] # resp["id"])

\* C2 witness: a malformed line answered with id 0 right after a request that
\* was answered under its own non-zero id
C2_Witness ==
    /\ line.kind = "garbage"
    /\ Len(inp) >= 2
    /\ inp[Len(inp) - 1] # 0
    /\ out[Len(out) - 1] = [id |-> inp[Len(inp) - 1]]
    /\ resp["id"] = 0

\* C3: while Uninitialized, a request for a Ready-only method is answered
\* with error -32000, makes no driver call, sleeps for no delay and leaves
\* the session handle and the configuration as they were.
C3_NotInitialized ==
    (IsRequest /\ Method \in ReadyOnly /\ pre.page = None)
        => /\ IsError(-32000)
           /\ calls = <<>>
           /\ delays = <<>>
           /\ Unchanged

\* C3 witness: a wait request rejected before any init
C3_Witness ==
    /\ IsRequest /\ Method = "wait" /\ pre.page = None
    /\ IsError(-32000)
    /\ resp["error"].message = <<"Browser not initialized. Call 'init' first.">>

\* C4: close always answers {status: "closed"} and leaves the session
\* Uninitialized, also when the teardown call raises; a close right after a
\* close gives the same answer, makes no driver call and changes no state.
C4_CloseAlwaysSucceeds ==
    (IsRequest /\ Method = "close")
        => /\ IsResult
           /\ resp["result"] = [status |-> "closed"]
           /\ page = None
           /\ prevClose => (calls = <<>> /\ Unchanged)

\* C4 witness: a close right after a close whose teardown call had raised
\* (the session it could not quit is still live)
C4_Witness ==
    /\ IsRequest /\ Method = "close" /\ prevClose
    /\ live # {}
    /\ IsResult /\ calls = <<>>

\* C5: the number of browser sessions launched and not yet torn down is at
\* most 1 in every reachable state.
C5_AtMostOneLive == Cardinality(live) <= 1

\* The elements of a sequence
Range(q) == {q[k] : k \in 1..Len(q)}

\* C6: a request whose method is not one of the twelve supported names is
\* answered with error -32601 whose message contains the method name, in
\* every session state, with no driver call and no state change; and no
\* other failure is reported with -32601.
C6_MethodNotFound ==
    /\ (IsRequest /\ Method \notin METHODS)
          => /\ IsError(-32601)
             /\ Method \in Range(resp["error"].message)
             /\ calls = <<>>
             /\ delays = <<>>
             /\ Unchanged
    /\ IsError(-32601) => (IsRequest /\ Method \notin METHODS)

\* C6 witness: an unknown method rejected with -32601 while Uninitialized,
\* where the not-initialized guard would also have applied
C6_Witness ==
    /\ IsRequest /\ Method = "frobnicate" /\ pre.page = None
    /\ IsError(-32601)
    /\ resp["error"].message = <<"Method not found: ", "frobnicate">>

\* The required parameter of a method, and whether `line` leaves it out
Required ==
    [navigate |-> "url", click_element |-> "selector", type_text |-> "selector",
     execute_js |-> "code"]
MissingRequired ==
    /\ IsRequest
    /\ Method \in DOMAIN Required
    /\ Required[Method] \notin DOMAIN Params

RequiredMessage ==
    [url |-> <<"url is required">>, selector |-> <<"selector is required">>,
     code |-> <<"code is required">>]

\* C7: while Ready, a request that omits its handler's required parameter
\* is answered with error -32000 whose message names the field, and no
\* driver call and no delay is performed for it.
C7_MissingParameter ==
    (MissingRequired /\ pre.page # None)
        => /\ IsError(-32000)
           /\ resp["error"].message = RequiredMessage[Required[Method]]
           /\ calls = <<>>
           /\ delays = <<>>

\* C7 witness: navigate without url while Ready
C7_Witness ==
    /\ MissingRequired /\ Method = "navigate" /\ pre.page # None
    /\ IsError(-32000)

\* C8: an exception raised while a line is handled becomes exactly one error
\* response with code -32000, the exception message and a trace in data, and
\* the loop goes on: main() is only left at end-of-input.
C8_ExceptionIsolated ==
    /\ pc # "crashed"
    /\ (NonBlank /\ raised # <<>>)
          => /\ IsError(-32000)
             /\ resp["error"].message = raised
             /\ "data" \in DOMAIN resp["error"]
             /\ resp["error"].data = Traceback
             /\ Len(out) = 1 + Len(inp)
    /\ (NonBlank /\ raised # <<>> /\ pc = "loop" /\ nread < MaxLines)
          => ENABLED ReqGetPageInfo

\* C8 witness: a driver exception answered as an error, the loop still reading
C8_Witness ==
    /\ IsRequest /\ raised = DriverError /\ calls # <<>>
    /\ IsError(-32000)
    /\ pc = "loop"

\* C9: stdout is the readiness line, written once before any line is read,
\* then one response per non-blank line read (none for a blank line), in the
\* order of the lines, each with exactly one of result and error; when the
\* next line is read the response to the line before has been written.
C9_OutputStream ==
    /\ pc = "start" => (out = <<>> /\ nread = 0)
    /\ pc # "start" =>
          /\ out = <<ReadyLine>> \o [k \in 1..Len(inp) |-> [id |-> inp[k]]]
          /\ Len(inp) <= nread
    /\ (pc # "start" /\ inp # <<>>) =>
          (DOMAIN resp = {"id", "result"} \/ DOMAIN resp = {"id", "error"})
    /\ (pc # "start" /\ inp = <<>>) => resp = ReadyLine

\* C9 witness: three lines read, one of them blank, two responses written
C9_Witness ==
    /\ nread = 3 /\ Len(inp) = 2 /\ Len(out) = 3
    /\ line.kind = "request"
    /\ inp[1] # inp[2]

\* C10: the session is Ready exactly when an init has succeeded and no close
\* was processed since; only init and close change the session handle and
\* the configuration.
C10_TwoStates ==
    /\ (page # None) <=> sinceInit
    /\ (line.kind # "none" /\ ~(IsRequest /\ Method \in {"init", "close"}))
          => Unchanged

\* C10 witness: another method handled after init and close, with the
\* session back to Uninitialized
C10_Witness ==
    /\ IsRequest /\ Method \in ReadyOnly
    /\ nlaunch = 1 /\ page = None /\ ~sinceInit

\* Driver calls of the pre-click pointer animation, and the click calls
AnimationFns == {"element.rect", "actions.move", "actions.move_to"}
ClickFns == {"element.click", "actions.click"}
Failed(fns) == \E k \in 1..Len(calls) : calls[k].fn \in fns /\ calls[k].r = "raise"
NaturalMovement == Get(pre.config, "naturalMouseMovement", TRUE)

\* The number of driver calls a scroll request makes for its direction
PrimaryScrolls ==
    IF Get(Params, "direction", "down") \in {"down", "up", "top", "bottom"}
    THEN 1 ELSE 0

HumanTyped ==
    /\ IsRequest /\ Method = "type_text"
    /\ Get(Params, "humanTyping", TRUE)
    /\ calls # <<>> /\ calls[1].fn = "page.ele" /\ calls[1].r = "ok"
TypedText == Get(Params, "text", <<>>)
IsTyping(c) == c.fn \in {"element.input", "element.type"}
Typing == SelectSeq(calls, IsTyping)
IsSleep(d) == d.fn = "time.sleep"
CharSleeps == SelectSeq(delays, IsSleep)
IsInput(c) == c.fn = "element.input"
IsTypedOk(c) == c.r = "ok"

\* C12 as stated: with no failing input, human_type makes exactly L
\* character-input calls, one per character in text order, each followed by
\* one delay; when the input of character k fails, character k is not
\* attempted again and no character after k is input, while the characters
\* before k stay typed.
C12_HumanTypeNoRetry ==
    HumanTyped =>
        /\ (\A i \in 1..Len(Typing) : Typing[i].r = "ok")
              => /\ Typing = [k \in 1..Len(TypedText) |->
                                Call("element.input", TypedText[k], 0, "ok")]
                 /\ Len(CharSleeps) = Len(TypedText)
        /\ \A i \in 1..Len(Typing) :
              (IsInput(Typing[i]) /\ Typing[i].r = "raise")
                => /\ i = Len(Typing)
                   /\ \A j \in 1..(i - 1) :
                         Typing[j] = Call("element.input", TypedText[j], 0, "ok")

\* C12 amended: with no failing input, exactly L input calls in text order,
\* each followed by one delay.  A failing element.input of character k is
\* followed by one element.type of the same character; when that succeeds
\* the typing goes on with character k + 1, and only when it fails too no
\* later character is attempted.  element.input is called at most once per
\* character, in text order; each character typed is followed by one delay.
C12_HumanTypeFallback ==
    HumanTyped =>
        /\ (\A i \in 1..Len(Typing) : Typing[i].r = "ok")
              => /\ Typing = [k \in 1..Len(TypedText) |->
                                Call("element.input", TypedText[k], 0, "ok")]
                 /\ Len(CharSleeps) = Len(TypedText)
        /\ \A i \in 1..Len(Typing) :
              /\ (IsInput(Typing[i]) /\ Typing[i].r = "raise")
                    => /\ i < Len(Typing)
                       /\ Typing[i + 1].fn = "element.type"
                       /\ Typing[i + 1].arg = Typing[i].arg
              /\ Typing[i].fn = "element.type"
                    => /\ i > 1
                       /\ Typing[i - 1] = Call("element.input", Typing[i].arg, 0, "raise")
                       /\ Typing[i].r = "raise" => i = Len(Typing)
        /\ LET inputs == SelectSeq(Typing, IsInput)
           IN  /\ Len(inputs) <= Len(TypedText)
               /\ \A k \in 1..Len(inputs) : inputs[k].arg = TypedText[k]
               /\ Len(inputs) < Len(TypedText)
                     => Typing[Len(Typing)] = Call("element.type",
                                                   TypedText[Len(inputs)], 0, "raise")
        /\ Len(CharSleeps) = Len(SelectSeq(Typing, IsTypedOk))

\* C12 witness: the input of the first character failed, the character was
\* typed by the fallback call and the second character was input after it
C12_Witness ==
    /\ HumanTyped
    /\ TypedText = <<"a", "b">>
    /\ Typing = <<Call("element.input", "a", 0, "raise"),
                  Call("element.type", "a", 0, "ok"),
                  Call("element.input", "b", 0, "ok")>>
    /\ Len(CharSleeps) = 2

\* C13: for a wait request with a selector, when the driver's wait reports
\* that the element did not become visible within the timeout (it returns
\* false, or raises), the result is {success: false, timedOut: true};
\* success: true is answered only when the element became visible.
C13_WaitTimeout ==
    (IsRequest /\ Method = "wait" /\ pre.page # None
        /\ Get(Params, "selector", "") # "")
      => /\ IsResult
         /\ calls[1].fn = "wait.ele_displayed"
         /\ calls[1].r # "ok"
               => /\ resp["result"].success = FALSE
                  /\ "timedOut" \in DOMAIN resp["result"]
                  /\ resp["result"].timedOut = TRUE
         /\ resp["result"].success = TRUE => calls[1].r = "ok"

\* round() of a point given in halves
Rounded(p) == <<PyRound(p[1], 2), PyRound(p[2], 2)>>

\* C14: bezier_curve_points(start, end, n) returns exactly n + 1 points for
\* every n >= 1, whatever the control points drawn; the first is start and
\* the last is end, rounded to integers.
C14_BezierEndpoints ==
    (args # NoCall /\ args.fn = "bezier_curve_points" /\ ret # NoCall)
      => /\ Len(ret) = args.num_points + 1
         /\ ret[1] = Rounded(args.start)
         /\ ret[Len(ret)] = Rounded(args.end)

\* C14 witness: a path of four points between two different points
C14_Witness ==
    /\ args # NoCall /\ args.fn = "bezier_curve_points"
    /\ args.num_points = 3
    /\ args.start = <<3, -1>> /\ args.end = <<400, 7>>
    /\ Len(ret) = 4
    /\ ret[1] = <<2, 0>> /\ ret[4] = <<200, 4>>

\* C15: random_scroll_jitter never issues a zero-magnitude scroll: for every
\* max_delta >= 0 and every delta drawn in [-max_delta, max_delta] it makes
\* exactly one scroll call, whose amount is strictly positive: a drawn 0
\* becomes 30 up or 30 down, any other delta scrolls by its magnitude, down
\* when positive and up when negative.
C15_JitterNeverZero ==
    (args # NoCall /\ args.fn = "random_scroll_jitter" /\ ret # NoCall)
      => /\ Len(ret.calls) = 1
         /\ ret.calls[1].fn \in {"scroll.down", "scroll.up"}
         /\ ret.calls[1].n > 0
         /\ args.drawn = 0 => ret.calls[1].n = 30
         /\ args.drawn > 0 => (ret.calls[1].fn = "scroll.down"
                               /\ ret.calls[1].n = args.drawn)
         /\ args.drawn < 0 => (ret.calls[1].fn = "scroll.up"
                               /\ ret.calls[1].n = -args.drawn)

\* C15 witness: max_delta = 0, so the delta drawn is 0, replaced by 30 up
C15_Witness ==
    /\ args # NoCall /\ args.fn = "random_scroll_jitter"
    /\ args.max_delta = 0 /\ args.drawn = 0
    /\ ret # NoCall
    /\ ret.calls = <<Call("scroll.up", "", 30, "ok")>>

\* The state-mutating methods, the driver calls that are their primary
\* action, and the sleeps made by _apply_human_delay
Mutating == {"navigate", "click_element", "click_xy", "type_text", "scroll"}
PrimaryFns ==
    [navigate |-> {"page.get"},
     click_element |-> {"element.click"},
     click_xy |-> {"actions.click"},
     type_text |-> {"element.input", "element.type"},
     scroll |-> {"scroll.down", "scroll.up", "scroll.to_top", "scroll.to_bottom"}]
IsHuman(d) == "after" \in DOMAIN d
HumanDelays == SelectSeq(delays, IsHuman)

\* C16: a state-mutating method that succeeds sleeps for exactly one
\* humanized delay, drawn by random_delay from [minDelayMs, maxDelayMs] of
\* the current configuration (200 and 800 when unset); it is the last sleep
\* of the request and comes after every primary driver call; init,
\* screenshot, get_dom_map, execute_js, wait, close and get_page_info never
\* sleep for such a delay.
C16_OneHumanDelay ==
    /\ (IsRequest /\ Method \in Mutating /\ IsResult)
          => /\ Len(HumanDelays) = 1
             /\ delays[Len(delays)] = HumanDelays[1]
             /\ HumanDelays[1].fn = "random_delay"
             /\ HumanDelays[1].lo = Get(config, "minDelayMs", 200)
             /\ HumanDelays[1].hi = Get(config, "maxDelayMs", 800)
             /\ \A k \in 1..Len(calls) :
                   calls[k].fn \in PrimaryFns[Method] => k <= HumanDelays[1].after
    /\ (IsRequest /\ Method \in METHODS \ Mutating) => HumanDelays = <<>>

\* C16 witness: a scroll under a configuration with its own delay range: the
\* jitter's random_delay(100, 300), then the humanized delay from [10, 20]
\* after both scroll calls
C16_Witness ==
    /\ IsRequest /\ Method = "scroll" /\ IsResult
    /\ Len(calls) = 2
    /\ delays = <<random_delay(100, 300),
                  random_delay(10, 20) @@ [after |-> 2]>>

\* C17: when the element lookup of click_element or type_text finds
\* nothing, the request is answered with error -32000 whose message names
\* the selector, and after the lookup no driver call (pointer move, click,
\* clear, character input) and no delay is made.
C17_ElementNotFound ==
    (IsRequest /\ Method \in {"click_element", "type_text"}
        /\ calls # <<>> /\ calls[1].fn = "page.ele" /\ calls[1].r = "none")
      => /\ IsError(-32000)
         /\ Params["selector"] \in Range(resp["error"].message)
         /\ resp["error"].message = <<"Element not found: ", Params["selector"]>>
         /\ calls = <<Call("page.ele", Params["selector"], 0, "none")>>
         /\ delays = <<>>

\* C17 witness: a type_text with a text to type whose selector matches nothing
C17_Witness ==
    /\ IsRequest /\ Method = "type_text"
    /\ Get(Params, "text", <<>>) # <<>>
    /\ calls = <<Call("page.ele", "#a", 0, "none")>>
    /\ IsError(-32000)

\* a call of get_random_viewport_point has returned
ViewportReturned ==
    args # NoCall /\ args.fn = "get_random_viewport_point" /\ ret # NoCall

\* C18 as stated: for every positive integer width and height the point
\* (x, y) returned by get_random_viewport_point has 0.1 * width <= x <=
\* 0.9 * width and 0.1 * height <= y <= 0.9 * height.
C18_ViewportMargins ==
    ViewportReturned
      => /\ 10 * ret[1] >= args.width /\ 10 * ret[1] <= 9 * args.width
         /\ 10 * ret[2] >= args.height /\ 10 * ret[2] <= 9 * args.height

\* C18 amended: the bounds are truncated to integers, so x lies between
\* int(0.1 * width) and int(0.9 * width): 10 * x > width - 10 and
\* 10 * x <= 9 * width, with 10 * x >= width when width is a multiple of
\* 10; likewise for y and height.
C18_ViewportTruncatedMargins ==
    ViewportReturned
      => /\ 10 * ret[1] > args.width - 10 /\ 10 * ret[1] <= 9 * args.width
         /\ 10 * ret[2] > args.height - 10 /\ 10 * ret[2] <= 9 * args.height
         /\ ret[1] >= 0 /\ ret[2] >= 0
         /\ args.width % 10 = 0 => 10 * ret[1] >= args.width
         /\ args.height % 10 = 0 => 10 * ret[2] >= args.height

\* C18 witness: width 11, where x = 1 is returned although 0.1 * 11 > 1,
\* and height 10, where y = 1 is the exact lower margin
C18_Witness ==
    /\ ViewportReturned
    /\ args.width = 11 /\ args.height = 10
    /\ ret = <<1, 1>>

\* C19: an init request that fails (the browser launch raises) changes
\* nothing: the session handle and the configuration are the same after the
\* error as before the request, so a Ready session never reads the stealth
\* object of an init other than the one that created its handle.
C19_FailedInitChangesNothing ==
    (IsRequest /\ Method = "init" /\ IsError(-32000)
        /\ calls = <<Call("ChromiumPage", "", 0, "raise")>>)
      => (page = pre.page /\ config = pre.config)

\* C20: a type_text answered with the result {success: true} has brought
\* the whole text to the element: with humanTyping, every character of the
\* text was typed, in order; when the per-character typing was aborted by a
\* failing input, type_text does not report success.
C20_SuccessMeansTyped ==
    (HumanTyped /\ IsResult /\ resp["result"].success = TRUE)
      => LET typed == SelectSeq(Typing, IsTypedOk)
         IN  /\ Len(typed) = Len(TypedText)
             /\ \A k \in 1..Len(typed) : typed[k].arg = TypedText[k]

====
